---- MODULE Spec2Model ----
(***************************************************************************)
(* A model of collectd-rust-plugin: the lifecycle callbacks that the       *)
(* collectd_plugin! macro wires to a PluginManager (src/plugins.rs), the   *)
(* log bridge CollectdLogger and its builder (src/api/logger.rs), and the  *)
(* pure level and capability functions of both files.                      *)
(*                                                                         *)
(* Option<T> is modelled as a sequence of length 0 (None) or 1 (Some).     *)
(* Byte strings are sequences of byte values.                              *)
(***************************************************************************)
EXTENDS Integers, Sequences, FiniteSets, TLC

VARIABLES
    \* ---- lifecycle (src/plugins.rs, collectd_plugin!) ----
    phase,          \* where the host is: "loaded", "registered", "inited", "shutdown", "aborted"
    manager_name,   \* Option: the bytes PluginManager::name() returned to module_register
    CONFIG_SEEN,    \* the static AtomicBool of the macro
    panic_handler,  \* whether register_panic_handler() has run
    registrations,  \* the plugin_register_* calls made, in order: <<kind, name>>
    calls,          \* every PluginManager call made so far, in order
    configs,        \* config callbacks fired: [fired |-> n, ok |-> n]
    last_cb,        \* Option: what the last host callback did and returned
    init_obs,       \* Option: what the init callback did, and the configs seen before it
    unwinding,      \* a panic has crossed the native boundary out of a callback
    register_trace, \* the calls module_register made, in order
    instances,      \* the names of the plugin instances registered with the host, in order
    last_registered, \* the instance names the last callback registered
    \* ---- log bridge (src/api/logger.rs) ----
    logger,         \* Option: the process-wide logger installed in the log crate
    max_level,      \* the log crate's process-wide maximum level
    first_logger,   \* Option: the logger built by the first successful try_init
    last_init,      \* Option: the last try_init call: its result and the state before it
    LOG_BUF,        \* per thread: the Vec<u8> held by the thread-local Cell
    stack,          \* per thread: the log() calls in progress, innermost last
    obs,            \* per thread: Option, the last log() call that returned
    partial_failed, \* per thread: a format function has failed after writing some bytes
    touched,        \* per LOG_BUF slot: the threads that have taken from or set its Cell
    inner_obs,      \* per thread: Option, the last log() call made by a format function
    \* ---- pure functions ----
    fn,             \* which function was applied last
    arg,            \* its argument
    res,            \* its result
    caps,           \* a PluginCapabilities value (its bits)
    members         \* the flags that were united into caps

lifecycle_vars == <<phase, manager_name, CONFIG_SEEN, panic_handler, registrations,
                    calls, configs, last_cb, init_obs, unwinding, register_trace,
                    instances, last_registered>>
logger_vars == <<logger, max_level, first_logger, last_init, LOG_BUF, stack, obs,
                 partial_failed, touched, inner_obs>>
pure_vars == <<fn, arg, res, caps, members>>
vars == <<lifecycle_vars, logger_vars, pure_vars>>

None == <<>>
Some(x) == <<x>>
IsSome(o) == Len(o) = 1
Unwrap(o) == o[1]

\* ---- bounds ----
MaxConfigs == 2     \* config callbacks the host fires on one module
MaxOut == 2         \* bytes a custom formatter writes for one record
MaxCode == 9        \* largest host severity integer tried with try_from
MaxDepth == 2       \* log() calls in progress on one thread when format functions log

\* ---- byte strings ----
Colon == 58
Space == 32
Nul == 0
HasNul(s) == \E i \in 1..Len(s) : s[i] = Nul

(***************************************************************************)
(* Lifecycle: module_register and the three callbacks of collectd_plugin!  *)
(***************************************************************************)

\* Manager names the model tries: "p", and "p\0" which breaks name()'s contract.
ManagerNames == { <<112>>, <<112, Nul>> }
\* What a PluginManager method does when called: returns Ok, returns Err, or panics.
Outcomes == {"ok", "err", "panic"}

\* Faulty variant: the flag starts set.
CONFIG_SEEN_initially_true == TRUE
\* static CONFIG_SEEN: AtomicBool = AtomicBool::new(false)
CONFIG_SEEN_initial == FALSE

\* Faulty variant: module_register leaves the call out.
register_panic_handler_skipped == FALSE
\* module_register calls internal::register_panic_handler() first.
register_panic_handler_called == TRUE

\* Faulty variant: the third registration repeats the init one.
module_register_calls_init_twice(name) ==
    << <<"complex_config", name>>, <<"init", name>>, <<"init", name>> >>
\* The three plugin_register_* calls of module_register, in order, keyed by name.
module_register_calls(name) ==
    << <<"complex_config", name>>, <<"init", name>>, <<"shutdown", name>> >>

\* module_register in the order of its statements: the panic handler, then (once the
\* name has become a CString) the registrations.
module_register_trace(name) ==
    (IF register_panic_handler_called THEN <<"register_panic_handler">> ELSE <<>>)
    \o (IF HasNul(name) THEN <<>>
        ELSE [i \in 1..Len(module_register_calls(name)) |->
                 module_register_calls(name)[i][1]])

Registered(kind) == \E i \in 1..Len(registrations) : registrations[i][1] = kind

\* Faulty variant: the flag is set only once plugins(Some(items)) has succeeded.
plugin_complex_config_flags_success(seen, parsed, po) ==
    IF ~parsed
    THEN [seen |-> seen, invoked |-> <<>>, status |-> -1, panicked |-> FALSE,
          constructed |-> FALSE]
    ELSE [seen |-> seen \/ po = "ok", invoked |-> <<"plugins_some">>,
          status |-> IF po = "ok" THEN 0 ELSE -1, panicked |-> po = "panic",
          constructed |-> po = "ok"]
\* internal::plugin_complex_config: parse the items; set the flag; plugins(Some(items)).
plugin_complex_config(seen, parsed, po) ==
    IF ~parsed
    THEN [seen |-> seen, invoked |-> <<>>, status |-> -1, panicked |-> FALSE,
          constructed |-> FALSE]
    ELSE [seen |-> TRUE, invoked |-> <<"plugins_some">>,
          status |-> IF po = "ok" THEN 0 ELSE -1, panicked |-> po = "panic",
          constructed |-> po = "ok"]

\* Faulty variant: the init callback clears the flag it has consumed.
plugin_init_clears_flag(seen, po, io) ==
    LET construct == ~seen
        cut == construct /\ po = "panic"
    IN  [seen |-> FALSE,
         invoked |-> (IF construct THEN <<"plugins_none">> ELSE <<>>)
                     \o (IF cut THEN <<>> ELSE <<"initialize">>),
         status |-> IF (construct /\ po # "ok") \/ io # "ok" THEN -1 ELSE 0,
         panicked |-> cut \/ io = "panic",
         constructed |-> construct /\ po = "ok"]
\* internal::plugin_init: construct with plugins(None) unless the flag is set; initialize().
plugin_init(seen, po, io) ==
    LET construct == ~seen
        cut == construct /\ po = "panic"
    IN  [seen |-> seen,
         invoked |-> (IF construct THEN <<"plugins_none">> ELSE <<>>)
                     \o (IF cut THEN <<>> ELSE <<"initialize">>),
         status |-> IF (construct /\ po # "ok") \/ io # "ok" THEN -1 ELSE 0,
         panicked |-> cut \/ io = "panic",
         constructed |-> construct /\ po = "ok"]

\* internal::plugin_shutdown: shutdown().
plugin_shutdown(so) ==
    [invoked |-> <<"shutdown">>, status |-> IF so = "ok" THEN 0 ELSE -1,
     panicked |-> so = "panic", constructed |-> FALSE]

\* What Manager.plugins() returns on success: Single, or Multiple with its names.
PluginRegistrations ==
    { [kind |-> "Single", names |-> <<>>],
      [kind |-> "Multiple", names |-> <<"a", "b">>],
      [kind |-> "Multiple", names |-> <<"a", "a">>] }

\* internal::register_all_plugins: every instance of the registration is registered
\* with the host, a Single one under the manager's own name ("").
register_all_plugins(reg) ==
    IF reg.kind = "Single" THEN <<"">> ELSE reg.names

\* The instances a callback registers: those of reg when it constructed, else none.
Registers(r, reg) ==
    LET names == IF r.constructed THEN register_all_plugins(reg) ELSE <<>>
    IN  /\ instances' = instances \o names
        /\ last_registered' = names

\* A callback hands r back to the host: inside the recovery boundary a panic becomes
\* r.status; without the boundary it unwinds into the host and nothing is returned.
Deliver(cb, r, failed) ==
    LET crossing == r.panicked /\ ~panic_handler
    IN  /\ last_cb' = Some([cb |-> cb, returned |-> ~crossing,
                            status |-> IF crossing THEN 0 ELSE r.status,
                            invoked |-> r.invoked, failed |-> failed,
                            panicked |-> r.panicked])
        /\ unwinding' = (unwinding \/ crossing)
        /\ calls' = calls \o r.invoked

module_register ==
    /\ phase = "loaded"
    /\ panic_handler' = register_panic_handler_called
    /\ \E name \in ManagerNames :
          /\ manager_name' = Some(name)
          /\ register_trace' = module_register_trace(name)
          /\ IF HasNul(name)
             THEN \* CString::new(name).expect(..) panics before any registration
                  /\ phase' = "aborted"
                  /\ registrations' = registrations
             ELSE /\ phase' = "registered"
                  /\ registrations' = registrations \o module_register_calls(name)
    /\ UNCHANGED <<CONFIG_SEEN, calls, configs, last_cb, init_obs, unwinding>>
    /\ UNCHANGED <<instances, last_registered>>
    /\ UNCHANGED <<logger_vars, pure_vars>>

collectd_plugin_complex_config ==
    /\ phase = "registered"
    /\ Registered("complex_config")
    /\ configs.fired < MaxConfigs
    /\ \E parsed \in BOOLEAN, po \in Outcomes, reg \in PluginRegistrations :
          LET r == plugin_complex_config(CONFIG_SEEN, parsed, po)
              failed == ~parsed \/ po # "ok"
          IN  /\ CONFIG_SEEN' = r.seen
              /\ Deliver("config", r, failed)
              /\ Registers(r, reg)
              /\ configs' = [fired |-> configs.fired + 1,
                             ok |-> configs.ok + (IF failed THEN 0 ELSE 1)]
    /\ UNCHANGED <<phase, manager_name, panic_handler, registrations, init_obs>>
    /\ UNCHANGED register_trace
    /\ UNCHANGED <<logger_vars, pure_vars>>

\* Faulty variant: the init entry point is wired to internal::plugin_shutdown.
collectd_plugin_init_runs_shutdown ==
    /\ phase = "registered"
    /\ Registered("init")
    /\ \E so \in Outcomes, reg \in PluginRegistrations :
          LET r == plugin_shutdown(so)
          IN  /\ Deliver("init", r, so # "ok")
              /\ Registers(r, reg)
              /\ init_obs' = Some([invoked |-> r.invoked, fired_before |-> configs.fired,
                                   ok_before |-> configs.ok, seen_before |-> CONFIG_SEEN])
    /\ phase' = "inited"
    /\ UNCHANGED <<manager_name, CONFIG_SEEN, panic_handler, registrations, configs>>
    /\ UNCHANGED register_trace
    /\ UNCHANGED <<logger_vars, pure_vars>>

collectd_plugin_init ==
    /\ phase = "registered"
    /\ Registered("init")
    /\ \E po \in Outcomes, io \in Outcomes, reg \in PluginRegistrations :
          LET r == plugin_init(CONFIG_SEEN, po, io)
              failed == (~CONFIG_SEEN /\ po # "ok") \/ io # "ok"
          IN  /\ CONFIG_SEEN' = r.seen
              /\ Deliver("init", r, failed)
              /\ Registers(r, reg)
              /\ init_obs' = Some([invoked |-> r.invoked, fired_before |-> configs.fired,
                                   ok_before |-> configs.ok, seen_before |-> CONFIG_SEEN])
    /\ phase' = "inited"
    /\ UNCHANGED <<manager_name, panic_handler, registrations, configs, register_trace>>
    /\ UNCHANGED <<logger_vars, pure_vars>>

collectd_plugin_shutdown ==
    /\ phase \in {"registered", "inited"}
    /\ Registered("shutdown")
    /\ \E so \in Outcomes :
          LET r == plugin_shutdown(so)
          IN  Deliver("shutdown", r, so # "ok")
    /\ phase' = "shutdown"
    /\ UNCHANGED <<manager_name, CONFIG_SEEN, panic_handler, registrations, configs, init_obs>>
    /\ UNCHANGED <<register_trace, instances>>
    /\ last_registered' = <<>>
    /\ UNCHANGED <<logger_vars, pure_vars>>


(***************************************************************************)
(* Levels (src/api/logger.rs) and capability flags (src/plugins.rs)        *)
(***************************************************************************)

\* The host's severity codes, imported from bindings (collectd's plugin.h).
LOG_ERR == 3
LOG_WARNING == 4
LOG_NOTICE == 5
LOG_INFO == 6
LOG_DEBUG == 7

\* enum LogLevel
LogLevels == {"Error", "Warning", "Notice", "Info", "Debug"}
\* log::Level
Levels == {"Error", "Warn", "Info", "Debug", "Trace"}
\* log::LevelFilter
LevelFilters == {"Off"} \cup Levels

\* `lvl as i32` / `lvl as u32`: the discriminant of #[repr(u32)] enum LogLevel.
LevelCode(lvl) ==
    CASE lvl = "Error" -> LOG_ERR
      [] lvl = "Warning" -> LOG_WARNING
      [] lvl = "Notice" -> LOG_NOTICE
      [] lvl = "Info" -> LOG_INFO
      [] lvl = "Debug" -> LOG_DEBUG

\* Faulty variant: the LOG_NOTICE arm yields Info.
try_from_notice_as_info(s) ==
    CASE s = LOG_ERR -> Some("Error")
      [] s = LOG_WARNING -> Some("Warning")
      [] s = LOG_NOTICE -> Some("Info")
      [] s = LOG_INFO -> Some("Info")
      [] s = LOG_DEBUG -> Some("Debug")
      [] OTHER -> None

\* LogLevel::try_from
try_from(s) ==
    CASE s = LOG_ERR -> Some("Error")
      [] s = LOG_WARNING -> Some("Warning")
      [] s = LOG_NOTICE -> Some("Notice")
      [] s = LOG_INFO -> Some("Info")
      [] s = LOG_DEBUG -> Some("Debug")
      [] OTHER -> None

\* Faulty variant: Trace gets an arm of its own, to Notice.
From_Level_trace_as_notice(lvl) ==
    CASE lvl = "Error" -> "Error"
      [] lvl = "Warn" -> "Warning"
      [] lvl = "Info" -> "Info"
      [] lvl = "Debug" -> "Debug"
      [] lvl = "Trace" -> "Notice"

\* impl From<Level> for LogLevel
From_Level(lvl) ==
    CASE lvl = "Error" -> "Error"
      [] lvl = "Warn" -> "Warning"
      [] lvl = "Info" -> "Info"
      [] lvl \in {"Debug", "Trace"} -> "Debug"

\* bitflags! PluginCapabilities
READ == 1
LOG == 2
WRITE == 4
FLUSH == 8
FlagNames == {"READ", "LOG", "WRITE", "FLUSH"}
FlagBits(f) ==
    CASE f = "READ" -> READ
      [] f = "LOG" -> LOG
      [] f = "WRITE" -> WRITE
      [] f = "FLUSH" -> FLUSH

\* bitflags! PluginManagerCapabilities
INIT == 1

RECURSIVE BitAnd(_, _)
\* a & b on the flag words
BitAnd(a, b) ==
    IF a = 0 \/ b = 0 THEN 0
    ELSE (a % 2) * (b % 2) + 2 * BitAnd(a \div 2, b \div 2)

RECURSIVE BitOr(_, _)
\* a | b on the flag words
BitOr(a, b) ==
    IF a = 0 THEN b
    ELSE IF b = 0 THEN a
    ELSE (IF a % 2 = 1 \/ b % 2 = 1 THEN 1 ELSE 0) + 2 * BitOr(a \div 2, b \div 2)

\* bitflags' intersects: !(self & other).is_empty()
intersects(self, other) == BitAnd(self, other) # 0

has_read(self) == intersects(self, READ)

has_log(self) == intersects(self, LOG)

\* Faulty variant: has_write tests the READ flag.
has_write_tests_read(self) == intersects(self, READ)
has_write(self) == intersects(self, WRITE)

has_flush(self) == intersects(self, FLUSH)

\* PluginCapabilities::default(): the empty set
PluginCapabilities_default == 0

\* ---- the pure functions applied to inputs drawn from bounded sets ----
apply_try_from ==
    /\ \E s \in 0..MaxCode :
          /\ fn' = "try_from"
          /\ arg' = s
          /\ res' = try_from(s)
    /\ UNCHANGED <<caps, members, lifecycle_vars, logger_vars>>

apply_code_then_try_from ==
    /\ \E l \in LogLevels :
          /\ fn' = "code_then_try_from"
          /\ arg' = l
          /\ res' = try_from(LevelCode(l))
    /\ UNCHANGED <<caps, members, lifecycle_vars, logger_vars>>

apply_From_Level ==
    /\ \E l \in Levels :
          /\ fn' = "from_level"
          /\ arg' = l
          /\ res' = From_Level(l)
    /\ UNCHANGED <<caps, members, lifecycle_vars, logger_vars>>

\* caps | FLAG
caps_union ==
    /\ \E f \in FlagNames :
          /\ caps' = BitOr(caps, FlagBits(f))
          /\ members' = members \cup {f}
    /\ UNCHANGED <<fn, arg, res, lifecycle_vars, logger_vars>>

\* start again from the empty set
caps_default ==
    /\ caps' = PluginCapabilities_default
    /\ members' = {}
    /\ UNCHANGED <<fn, arg, res, lifecycle_vars, logger_vars>>


(***************************************************************************)
(* The log bridge: CollectdLoggerBuilder::try_init and CollectdLogger::log *)
(***************************************************************************)

Threads == {"t1", "t2"}

\* The name prefix_plugin::<T>() stores: T::name(), here "p".
PluginName == <<112>>
\* What a Record carries: its level and its optional module path ("m"); its args are "x".
ModulePath == <<109>>
RecordArgs == <<120>>
Records == [level : Levels, path : {None, Some(ModulePath)}]
\* The bytes a custom format function may write, one write! at a time.
FormatBytes == {Nul, 97}

\* The builder states try_init is called on: filter_level(..), prefix_plugin(), format(..).
Builders == [filter : LevelFilters, plugin : {None, Some(PluginName)}, custom : BOOLEAN]

\* log's ordering of Level and LevelFilter: Off < Error < Warn < Info < Debug < Trace
LevelOrd(l) ==
    CASE l = "Off" -> 0
      [] l = "Error" -> 1
      [] l = "Warn" -> 2
      [] l = "Info" -> 3
      [] l = "Debug" -> 4
      [] l = "Trace" -> 5

\* CollectdLogger::matches: the filter built by filter_level lets the record's level through.
matches(lg, rec) == LevelOrd(rec.level) <= LevelOrd(lg.filter)

\* CollectdLogger::filter: the maximum LevelFilter the logger outputs.
filter(lg) == lg.filter

\* The CollectdLogger that try_init builds from the builder (Format::into_boxed_fn included).
build_logger(b) ==
    [filter |-> b.filter, plugin |-> b.plugin,
     format |-> IF b.custom THEN "custom" ELSE "default"]

\* Faulty variant: the new logger is installed over the old one.
set_boxed_logger_replaces(cur, new) ==
    [logger |-> Some(new), ok |-> cur = None]
\* log::set_boxed_logger as try_init uses it: installs only when no logger is set.
set_boxed_logger(cur, new) ==
    IF cur = None THEN [logger |-> Some(new), ok |-> TRUE]
    ELSE [logger |-> cur, ok |-> FALSE]

try_init_from(builders) ==
    \E b \in builders :
       LET built == build_logger(b)
           set == set_boxed_logger(logger, built)
       IN  /\ max_level' = filter(built)
           /\ logger' = set.logger
           /\ first_logger' = IF logger = None THEN Some(built) ELSE first_logger
           /\ last_init' = Some([ok |-> set.ok, logger_before |-> logger,
                                 max_before |-> max_level])
           /\ obs' = [t \in Threads |-> None]
           /\ inner_obs' = [t \in Threads |-> None]
           /\ UNCHANGED <<LOG_BUF, stack, partial_failed, touched>>
           /\ UNCHANGED <<lifecycle_vars, pure_vars>>

try_init == try_init_from(Builders)

\* io::Write for Cursor<Vec<u8>>: overwrite from the position, extend past the end.
CursorWrite(c, bytes) ==
    LET end == c.pos + Len(bytes)
        n == IF end > Len(c.v) THEN end ELSE Len(c.v)
    IN  [v |-> [i \in 1..n |->
                    IF i > c.pos /\ i <= end THEN bytes[i - c.pos]
                    ELSE IF i <= Len(c.v) THEN c.v[i] ELSE 0],
         pos |-> end]

\* Faulty variant: the prefix is written without its ": ".
write_prefix_without_separator(c, lg) ==
    IF IsSome(lg.plugin) THEN CursorWrite(c, Unwrap(lg.plugin)) ELSE c
\* if let Some(plugin) = self.plugin { write!(curse, "{}: ", plugin) }
write_prefix(c, lg) ==
    IF IsSome(lg.plugin) THEN CursorWrite(c, Unwrap(lg.plugin) \o <<Colon, Space>>) ELSE c

\* The default format function: "<module path>: " if the record has one, then the args.
default_format(rec) ==
    (IF IsSome(rec.path) THEN Unwrap(rec.path) \o <<Colon, Space>> ELSE <<>>) \o RecordArgs

\* Faulty variant: the vector goes back into the cell as it is.
clear_skipped(v) == v
\* new_vec.clear()
clear(v) == <<>>

\* Faulty variant: the host is called whatever the format function returned.
log_tail_sinks_on_error(v, ok, rec) ==
    LET nv == v \o <<Nul>>
    IN  [call |-> Some([lvl |-> LevelCode(From_Level(rec.level)), bytes |-> nv]),
         new_vec |-> nv]
\* Faulty variant: the bytes go to the host without the trailing NUL.
log_tail_without_nul(v, ok, rec) ==
    IF ok
    THEN [call |-> Some([lvl |-> LevelCode(From_Level(rec.level)), bytes |-> v]),
          new_vec |-> v]
    ELSE [call |-> None, new_vec |-> v]
\* log() after the format function returned: on Ok push the NUL and call plugin_log.
log_tail(v, ok, rec) ==
    IF ok
    THEN LET nv == v \o <<Nul>>
         IN  [call |-> Some([lvl |-> LevelCode(From_Level(rec.level)), bytes |-> nv]),
              new_vec |-> nv]
    ELSE [call |-> None, new_vec |-> v]

\* Faulty variant: one static Cell serves every thread.
buf_slot_shared(t) == "t1"
\* thread_local!(static LOG_BUF ..): each thread has its own Cell, keyed here by the thread.
buf_slot(t) == t

\* LOG_BUF.with(|cell| ..) on thread t: the thread's Cell is taken from or set.
Touch(t) == [touched EXCEPT ![buf_slot(t)] = @ \cup {t}]

\* The record of a log() call that has returned: the outermost call's goes to obs, the
\* one of a call made by a format function to inner_obs.
Observe(t, nested, o) ==
    IF nested
    THEN /\ inner_obs' = [inner_obs EXCEPT ![t] = o]
         /\ UNCHANGED obs
    ELSE /\ obs' = [obs EXCEPT ![t] = o]
         /\ UNCHANGED inner_obs

\* log() is entered on thread t: filtered out, or the buffer is taken and the prefix written.
log_enter(t, rec, depth) ==
    /\ IsSome(logger)
    /\ Len(stack[t]) < depth
    /\ LET lg == Unwrap(logger)
           nested == stack[t] # <<>>
           cell == LOG_BUF[buf_slot(t)]
       IN  IF ~matches(lg, rec)
           THEN /\ Observe(t, nested, Some([rec |-> rec, result |-> "filtered",
                              call |-> None, sunk |-> 0, out |-> <<>>,
                              buf_before |-> cell, buf_after |-> cell]))
                /\ UNCHANGED <<LOG_BUF, stack, touched>>
           ELSE LET c == write_prefix([v |-> cell, pos |-> 0], lg)
                IN  /\ LOG_BUF' = [LOG_BUF EXCEPT ![buf_slot(t)] = <<>>]
                    /\ touched' = Touch(t)
                    /\ stack' = [stack EXCEPT ![t] = Append(@,
                                    [rec |-> rec, v |-> c.v, pos |-> c.pos, out |-> <<>>,
                                     buf_before |-> cell])]
                    /\ IF nested
                       THEN UNCHANGED <<obs, inner_obs>>
                       ELSE /\ obs' = [obs EXCEPT ![t] = None]
                            /\ inner_obs' = [inner_obs EXCEPT ![t] = None]
    /\ UNCHANGED <<logger, max_level, first_logger, last_init, partial_failed>>
    /\ UNCHANGED <<lifecycle_vars, pure_vars>>

Top(t) == stack[t][Len(stack[t])]
Pop(t) == SubSeq(stack[t], 1, Len(stack[t]) - 1)

\* The format function of the innermost call on t has returned ok or an error.
log_return(t, f, ok) ==
    LET tail == log_tail(f.v, ok, f.rec)
        new_vec == clear(tail.new_vec)
    IN  /\ LOG_BUF' = [LOG_BUF EXCEPT ![buf_slot(t)] = new_vec]
        /\ touched' = Touch(t)
        /\ stack' = [stack EXCEPT ![t] = Pop(t)]
        /\ Observe(t, Len(stack[t]) > 1, Some([rec |-> f.rec,
                      result |-> IF ok THEN "ok" ELSE "error",
                      call |-> tail.call, sunk |-> Len(tail.call), out |-> f.out,
                      buf_before |-> f.buf_before, buf_after |-> new_vec]))
        /\ partial_failed' = [partial_failed EXCEPT ![t] = @ \/ (~ok /\ f.out # <<>>)]
        /\ UNCHANGED <<logger, max_level, first_logger, last_init, lifecycle_vars, pure_vars>>

\* A custom format function writes one more byte into the cursor.
format_write(t) ==
    /\ stack[t] # <<>>
    /\ Unwrap(logger).format = "custom"
    /\ Len(Top(t).out) < MaxOut
    /\ \E b \in FormatBytes :
          LET f == Top(t)
              c == CursorWrite([v |-> f.v, pos |-> f.pos], <<b>>)
          IN  stack' = [stack EXCEPT ![t][Len(stack[t])] =
                            [f EXCEPT !.v = c.v, !.pos = c.pos, !.out = Append(f.out, b)]]
    /\ UNCHANGED <<logger, max_level, first_logger, last_init, LOG_BUF, obs, partial_failed>>
    /\ UNCHANGED <<touched, inner_obs, lifecycle_vars, pure_vars>>

\* A custom format function returns Ok(()) or Err(_).
format_return(t) ==
    /\ stack[t] # <<>>
    /\ Unwrap(logger).format = "custom"
    /\ \E ok \in BOOLEAN : log_return(t, Top(t), ok)

\* A custom format function panics: log() unwinds, its vector is dropped.
format_panic(t) ==
    /\ stack[t] # <<>>
    /\ Unwrap(logger).format = "custom"
    /\ stack' = [stack EXCEPT ![t] = <<>>]
    /\ obs' = [obs EXCEPT ![t] = Some([rec |-> stack[t][1].rec, result |-> "panic",
                  call |-> None, sunk |-> 0, out |-> stack[t][1].out,
                  buf_before |-> stack[t][1].buf_before,
                  buf_after |-> LOG_BUF[buf_slot(t)]])]
    /\ partial_failed' = [partial_failed EXCEPT ![t] = @ \/ Top(t).out # <<>>]
    /\ UNCHANGED <<logger, max_level, first_logger, last_init, LOG_BUF, touched, inner_obs>>
    /\ UNCHANGED <<lifecycle_vars, pure_vars>>

\* A custom format function logs a record itself before it returns.
format_logs(t, rec) ==
    /\ stack[t] # <<>>
    /\ Unwrap(logger).format = "custom"
    /\ log_enter(t, rec, MaxDepth)

\* The default format function runs: it writes its text and returns Ok.
format_default(t) ==
    /\ stack[t] # <<>>
    /\ Unwrap(logger).format = "default"
    /\ LET f == Top(t)
           text == default_format(f.rec)
           c == CursorWrite([v |-> f.v, pos |-> f.pos], text)
       IN  log_return(t, [f EXCEPT !.v = c.v, !.pos = c.pos, !.out = text], TRUE)

(***************************************************************************)
(* Defaults of trait Plugin and PluginManager; the direct path collectd_log *)
(***************************************************************************)

\* The optional methods of trait Plugin, and the arguments tried with each.
PluginMethods == {"log", "read_values", "write_values", "flush"}
MethodArgs(m) ==
    CASE m = "log" -> [lvl : LogLevels, msg : {<<120>>}]
      [] m = "read_values" -> {<<>>}
      [] m = "write_values" -> {<<"list">>}
      [] m = "flush" -> [timeout : {None, Some("d")}, identifier : {None, Some(<<120>>)}]

\* Faulty variant: the default flush has nothing to flush and reports success.
Plugin_default_flush_succeeds(m, a) ==
    IF m = "flush" THEN [ok |-> TRUE, err |-> "none"]
    ELSE [ok |-> FALSE, err |-> "NotImplemented"]
\* The provided bodies of Plugin::log, read_values, write_values, flush: Err(NotImplemented)?
Plugin_default(m, a) == [ok |-> FALSE, err |-> "NotImplemented"]

\* Plugin::capabilities as provided: PluginCapabilities::default()
Plugin_capabilities == PluginCapabilities_default

\* PluginManager::capabilities as provided
PluginManager_capabilities == INIT

apply_Plugin_default ==
    /\ \E m \in PluginMethods : \E a \in MethodArgs(m) :
          /\ fn' = "plugin_default"
          /\ arg' = <<m, a>>
          /\ res' = Plugin_default(m, a)
    /\ UNCHANGED <<caps, members, lifecycle_vars, logger_vars>>

apply_capabilities ==
    /\ \E who \in {"Plugin", "PluginManager"} :
          /\ fn' = "capabilities"
          /\ arg' = who
          /\ res' = IF who = "Plugin" THEN Plugin_capabilities ELSE PluginManager_capabilities
    /\ UNCHANGED <<caps, members, lifecycle_vars, logger_vars>>

\* The messages tried with collectd_log: "", "x", "x\0", "\0x".
Messages == { <<>>, <<120>>, <<120, Nul>>, <<Nul, 120>> }

\* Faulty variant: the message is turned into a C string without the check.
collectd_log_unchecked(lvl, message) ==
    [panicked |-> FALSE,
     sink |-> << [lvl |-> LevelCode(lvl), bytes |-> message \o <<Nul>>] >>]
\* collectd_log: CString::new(message).expect(..), then one plugin_log(lvl as i32, ptr).
collectd_log(lvl, message) ==
    IF HasNul(message)
    THEN [panicked |-> TRUE, sink |-> <<>>]
    ELSE [panicked |-> FALSE,
          sink |-> << [lvl |-> LevelCode(lvl), bytes |-> message \o <<Nul>>] >>]

apply_collectd_log ==
    /\ \E lvl \in LogLevels, message \in Messages :
          /\ fn' = "collectd_log"
          /\ arg' = [lvl |-> lvl, message |-> message]
          /\ res' = collectd_log(lvl, message)
    /\ UNCHANGED <<caps, members, lifecycle_vars, logger_vars>>

(***************************************************************************)
(* Specifications                                                          *)
(***************************************************************************)

InitLifecycle ==
    /\ phase = "loaded"
    /\ manager_name = None
    /\ CONFIG_SEEN = CONFIG_SEEN_initial
    /\ panic_handler = FALSE
    /\ registrations = <<>>
    /\ calls = <<>>
    /\ configs = [fired |-> 0, ok |-> 0]
    /\ last_cb = None
    /\ init_obs = None
    /\ unwinding = FALSE
    /\ register_trace = <<>>
    /\ instances = <<>>
    /\ last_registered = <<>>

InitLogger ==
    /\ logger = None
    /\ max_level = "Off"
    /\ first_logger = None
    /\ last_init = None
    /\ LOG_BUF = [t \in Threads |-> <<>>]
    /\ stack = [t \in Threads |-> <<>>]
    /\ obs = [t \in Threads |-> None]
    /\ partial_failed = [t \in Threads |-> FALSE]
    /\ touched = [t \in Threads |-> {}]
    /\ inner_obs = [t \in Threads |-> None]

InitPure ==
    /\ fn = "none"
    /\ arg = 0
    /\ res = None
    /\ caps = PluginCapabilities_default
    /\ members = {}

Init == InitLifecycle /\ InitLogger /\ InitPure

\* The host drives one loaded module.
Next ==
    \/ module_register
    \/ collectd_plugin_complex_config
    \/ collectd_plugin_init
    \/ collectd_plugin_shutdown

Spec == Init /\ [][Next]_vars

\* One thread logs through the installed bridge; formatters do not log themselves.
NextLogger ==
    \/ try_init
    \/ \E rec \in Records : log_enter("t1", rec, 1)
    \/ format_write("t1")
    \/ format_return("t1")
    \/ format_panic("t1")
    \/ format_default("t1")

SpecLogger == Init /\ [][NextLogger]_vars

\* The builders and records tried where threads interleave or format functions log.
CustomBuilders == {b \in Builders : b.filter = "Info" /\ b.custom}
FewRecords == {r \in Records : r.level \in {"Info", "Debug"} /\ r.path = None}

\* Two threads log through the installed bridge, their steps interleaved.
NextThreads ==
    \/ try_init_from(CustomBuilders)
    \/ \E t \in Threads :
          \/ \E rec \in FewRecords : log_enter(t, rec, 1)
          \/ format_write(t)
          \/ format_return(t)
          \/ format_panic(t)

SpecThreads == Init /\ [][NextThreads]_vars

\* One thread logs through a bridge whose format function logs records itself.
NextNested ==
    \/ try_init_from(CustomBuilders)
    \/ \E rec \in FewRecords : log_enter("t1", rec, 1)
    \/ \E rec \in FewRecords : format_logs("t1", rec)
    \/ format_write("t1")
    \/ format_return("t1")
    \/ format_panic("t1")

SpecNested == Init /\ [][NextNested]_vars

NextPure ==
    \/ apply_try_from
    \/ apply_code_then_try_from
    \/ apply_From_Level
    \/ caps_union
    \/ caps_default
    \/ apply_Plugin_default
    \/ apply_capabilities
    \/ apply_collectd_log

SpecPure == Init /\ [][NextPure]_vars


(***************************************************************************)
(* Claims                                                                  *)
(***************************************************************************)

Count(seq, x) == Cardinality({i \in 1..Len(seq) : seq[i] = x})

\* C1: when at least one config callback succeeded before the init callback, the init
\* callback makes no call of Manager.plugins(); when no config callback fired before
\* it, the init callback calls Manager.plugins(None) exactly once (and never
\* plugins(Some)).
C1_InitConstructsOnlyWithoutConfig ==
    IsSome(init_obs) =>
        LET o == Unwrap(init_obs)
            n_none == Count(o.invoked, "plugins_none")
            n_some == Count(o.invoked, "plugins_some")
        IN  /\ (o.ok_before >= 1 => n_none + n_some = 0)
            /\ (o.fired_before = 0 => n_none = 1 /\ n_some = 0)

\* C1 witness: the init callback has run after a successful config callback and only
\* initialized.
C1_Witness ==
    /\ IsSome(init_obs)
    /\ Unwrap(init_obs).ok_before >= 1
    /\ Unwrap(init_obs).invoked = <<"initialize">>

\* C2: every config, init and shutdown callback returns an integer status to the host,
\* 0 exactly when nothing failed, non-zero when the manager panicked, and no panic
\* ever unwinds across the native boundary.
C2_CallbacksReturnStatus ==
    /\ ~unwinding
    /\ IsSome(last_cb) =>
          LET c == Unwrap(last_cb)
          IN  /\ c.returned
              /\ c.status \in Int
              /\ (c.status = 0 <=> ~c.failed)
              /\ (c.panicked => c.status # 0)

\* C2 witness: a callback in which the manager panicked has returned a non-zero status.
C2_Witness ==
    /\ IsSome(last_cb)
    /\ Unwrap(last_cb).panicked
    /\ Unwrap(last_cb).returned
    /\ Unwrap(last_cb).status # 0

\* C3: after every log() call of a thread has returned (filtered out, formatter Ok,
\* formatter Err), the vector in that thread's LOG_BUF slot has length zero.
C3_BufferEmptyAfterLog ==
    \A t \in Threads :
        IsSome(obs[t]) =>
            /\ Len(Unwrap(obs[t]).buf_after) = 0
            /\ Len(LOG_BUF[t]) = 0

\* C3 witness: a call whose formatter failed after writing bytes has returned and the
\* slot is empty.
C3_Witness ==
    /\ IsSome(obs["t1"])
    /\ Unwrap(obs["t1"]).result = "error"
    /\ Len(Unwrap(obs["t1"]).out) > 0
    /\ LOG_BUF["t1"] = <<>>

\* What the logger lg puts before the formatter's output.
ExpectedPrefix(lg) ==
    IF IsSome(lg.plugin) THEN Unwrap(lg.plugin) \o <<Colon, Space>> ELSE <<>>

\* What the default format renders for a record.
ExpectedDefaultText(rec) ==
    IF IsSome(rec.path) THEN Unwrap(rec.path) \o <<Colon, Space>> \o RecordArgs
    ELSE RecordArgs

\* C4: a try_init called while a logger is installed returns the error, and the
\* installed logger is still the one of the first installation: every log() call
\* that returns afterwards was filtered, prefixed and formatted by the first logger.
C4_SecondInitKeepsFirstLogger ==
    (IsSome(last_init) /\ IsSome(Unwrap(last_init).logger_before)) =>
        /\ ~Unwrap(last_init).ok
        /\ logger = Unwrap(last_init).logger_before
        /\ logger = first_logger
        /\ \A t \in Threads :
              IsSome(obs[t]) =>
                 LET o == Unwrap(obs[t])
                     fl == Unwrap(first_logger)
                 IN  /\ (o.result = "filtered") <=> (LevelOrd(o.rec.level) > LevelOrd(fl.filter))
                     /\ IsSome(o.call) =>
                           Unwrap(o.call).bytes = ExpectedPrefix(fl) \o o.out \o <<Nul>>
                     /\ (o.result = "ok" /\ fl.format = "default") =>
                           o.out = ExpectedDefaultText(o.rec)
                     /\ (fl.format = "default") => o.result \in {"filtered", "ok"}

\* C4 witness: after a failed second try_init whose builder had another filter level,
\* a log() call has handed a prefixed message to the host.
C4_Witness ==
    /\ IsSome(last_init)
    /\ ~Unwrap(last_init).ok
    /\ max_level # Unwrap(logger).filter
    /\ IsSome(Unwrap(logger).plugin)
    /\ IsSome(obs["t1"])
    /\ IsSome(Unwrap(obs["t1"]).call)

\* C5: after a try_init call that returned an error, the installed logger and the
\* process-wide maximum level are what they were before the call.
C5_FailedInitHasNoSideEffect ==
    (IsSome(last_init) /\ ~Unwrap(last_init).ok) =>
        /\ logger = Unwrap(last_init).logger_before
        /\ max_level = Unwrap(last_init).max_before

\* C6: a log() call calls the host sink exactly once when the filter matches and the
\* formatter returns Ok, and not at all when the filter does not match or the
\* formatter returns Err; a filtered-out record leaves the scratch buffer as it was.
C6_SinkCalledOncePerDeliveredRecord ==
    \A t \in Threads :
        IsSome(obs[t]) =>
            LET o == Unwrap(obs[t])
                m == LevelOrd(o.rec.level) <= LevelOrd(Unwrap(logger).filter)
            IN  /\ (m /\ o.result = "ok") => (o.sunk = 1 /\ IsSome(o.call))
                /\ (~m \/ o.result = "error") => (o.sunk = 0 /\ o.call = None)
                /\ ~m => (o.result = "filtered" /\ o.buf_after = o.buf_before)
                /\ m => o.result # "filtered"

\* C6 witness: a matching record whose formatter returned Ok reached the sink once.
C6_Witness ==
    /\ IsSome(obs["t1"])
    /\ Unwrap(obs["t1"]).result = "ok"
    /\ Unwrap(obs["t1"]).sunk = 1

\* C7: the bytes a log() call hands to the host are the configured prefix
\* "<plugin>: " (if any), then the formatter's output for this record, then one
\* NUL, with nothing left from an earlier record; the severity is the record's
\* level mapped by From<Level>.
C7_HostGetsPrefixOutputNul ==
    \A t \in Threads :
        (IsSome(obs[t]) /\ IsSome(Unwrap(obs[t]).call)) =>
            LET o == Unwrap(obs[t])
                lg == Unwrap(logger)
            IN  /\ Unwrap(o.call).bytes = ExpectedPrefix(lg) \o o.out \o <<Nul>>
                /\ Unwrap(o.call).lvl = LevelCode(From_Level(o.rec.level))
                /\ (lg.format = "default") => o.out = ExpectedDefaultText(o.rec)

\* C7 witness: after a call whose formatter failed having written bytes, a call with
\* a shorter output reached the host.
C7_Witness ==
    /\ partial_failed["t1"]
    /\ IsSome(obs["t1"])
    /\ IsSome(Unwrap(obs["t1"]).call)
    /\ Unwrap(obs["t1"]).out = <<>>
    /\ IsSome(Unwrap(logger).plugin)

RecognizedCodes == {LOG_ERR, LOG_WARNING, LOG_NOTICE, LOG_INFO, LOG_DEBUG}

\* C8: try_from(L as code) is L for each of the five levels; for a recognized code c
\* the level try_from(c) has code c; for any other integer try_from is None.
C8_TryFromRoundTrip ==
    /\ (fn = "code_then_try_from") => res = Some(arg)
    /\ (fn = "try_from" /\ arg \in RecognizedCodes) =>
          (IsSome(res) /\ Unwrap(res) \in LogLevels /\ LevelCode(Unwrap(res)) = arg)
    /\ (fn = "try_from" /\ arg \notin RecognizedCodes) => res = None

\* C8 witness: try_from was applied to the code of Notice and returned Notice.
C8_Witness ==
    /\ fn = "try_from"
    /\ arg = LOG_NOTICE
    /\ res = Some("Notice")

\* The severity the claim expects for each level of the logging library.
ExpectedSeverity(lvl) ==
    CASE lvl = "Error" -> LOG_ERR
      [] lvl = "Warn" -> LOG_WARNING
      [] lvl = "Info" -> LOG_INFO
      [] lvl = "Debug" -> LOG_DEBUG
      [] lvl = "Trace" -> LOG_DEBUG

\* C9: From<Level> maps Error to Error, Warn to Warning, Info to Info, Debug and Trace
\* to Debug, for every Level; so the severity log() hands to the host is never Notice.
C9_LevelMappingNeverNotice ==
    \A t \in Threads :
        (IsSome(obs[t]) /\ IsSome(Unwrap(obs[t]).call)) =>
            /\ Unwrap(obs[t]).rec.level \in Levels
            /\ Unwrap(Unwrap(obs[t]).call).lvl = ExpectedSeverity(Unwrap(obs[t]).rec.level)
            /\ Unwrap(Unwrap(obs[t]).call).lvl # LOG_NOTICE

\* C9 witness: a Trace record reached the host with the Debug severity.
C9_Witness ==
    /\ IsSome(obs["t1"])
    /\ IsSome(Unwrap(obs["t1"]).call)
    /\ Unwrap(obs["t1"]).rec.level = "Trace"
    /\ Unwrap(Unwrap(obs["t1"]).call).lvl = LOG_DEBUG

\* C10: for every capability set built by union from READ, LOG, WRITE, FLUSH, each
\* has_* query is true exactly when its flag is a member; READ|WRITE has read and
\* write but neither log nor flush, and READ alone has no write.
C10_HasQueriesAreMembership ==
    /\ has_read(caps) <=> ("READ" \in members)
    /\ has_log(caps) <=> ("LOG" \in members)
    /\ has_write(caps) <=> ("WRITE" \in members)
    /\ has_flush(caps) <=> ("FLUSH" \in members)
    /\ (members = {"READ", "WRITE"}) =>
          (has_read(caps) /\ has_write(caps) /\ ~has_log(caps) /\ ~has_flush(caps))
    /\ (members = {"READ"}) => ~has_write(caps)

\* C10 witness: the set READ|WRITE has been built.
C10_Witness ==
    /\ members = {"READ", "WRITE"}
    /\ caps = READ + WRITE
    /\ has_read(caps)
    /\ has_write(caps)


\* C11: a plugin that overrides nothing advertises the empty capability set and each of
\* its log, read_values, write_values and flush returns the not-implemented error for
\* every argument; a manager that does not override capabilities() advertises INIT.
C11_DefaultsAreNotImplemented ==
    /\ (fn = "plugin_default") => (~res.ok /\ res.err = "NotImplemented")
    /\ (fn = "capabilities" /\ arg = "Plugin") =>
          \A f \in FlagNames : ~intersects(res, FlagBits(f))
    /\ (fn = "capabilities" /\ arg = "PluginManager") =>
          (res = INIT /\ intersects(res, INIT))

\* C11 witness: the provided flush was called with a timeout and an identifier and
\* returned the not-implemented error.
C11_Witness ==
    /\ fn = "plugin_default"
    /\ arg[1] = "flush"
    /\ IsSome(arg[2].timeout)
    /\ IsSome(arg[2].identifier)
    /\ res.err = "NotImplemented"

\* C16: collectd_log(level, message) calls the host sink exactly once, with the level's
\* host code and the message, when the message has no NUL; with a NUL in the message
\* it panics and does not call the host sink.
C16_DirectLogOnceOrPanic ==
    (fn = "collectd_log") =>
        IF \E i \in 1..Len(arg.message) : arg.message[i] = 0
        THEN res.panicked /\ Len(res.sink) = 0
        ELSE /\ ~res.panicked
             /\ Len(res.sink) = 1
             /\ res.sink[1].lvl = LevelCode(arg.lvl)
             /\ res.sink[1].bytes = arg.message \o <<0>>

\* C16 witness: collectd_log was called with a message holding a NUL and panicked.
C16_Witness ==
    /\ fn = "collectd_log"
    /\ arg.message = <<120, 0>>
    /\ res.panicked


\* The registration each callback runs under.
CallbackKind(cb) ==
    CASE cb = "config" -> "complex_config"
      [] cb = "init" -> "init"
      [] cb = "shutdown" -> "shutdown"

\* C12: module_register, given a name without NUL, makes exactly one
\* register_complex_config, one register_init and one register_shutdown call, each
\* keyed by the manager's name, after installing the panic guard; and no callback
\* runs before its registration.
C12_RegistersEachCallbackOnce ==
    /\ (IsSome(manager_name) /\ ~HasNul(Unwrap(manager_name))) =>
          /\ \A kind \in {"complex_config", "init", "shutdown"} :
                Cardinality({i \in 1..Len(registrations) : registrations[i][1] = kind}) = 1
          /\ Len(registrations) = 3
          /\ \A i \in 1..Len(registrations) : registrations[i][2] = Unwrap(manager_name)
          /\ panic_handler
          /\ Len(register_trace) = 4
          /\ register_trace[1] = "register_panic_handler"
          /\ Count(register_trace, "register_panic_handler") = 1
    /\ IsSome(last_cb) => Registered(CallbackKind(Unwrap(last_cb).cb))
    /\ (phase = "loaded") => (last_cb = None /\ calls = <<>>)

\* C12 witness: the module was registered under "p" and all three kinds of callback
\* have run since.
C12_Witness ==
    /\ manager_name = Some(<<112>>)
    /\ Len(registrations) = 3
    /\ phase = "shutdown"
    /\ configs.fired >= 1
    /\ IsSome(init_obs)

IsConstruction(c) == c \in {"plugins_none", "plugins_some"}

\* C13: over the life of a loaded module initialize() is called at most once and
\* shutdown() at most once, shutdown() only by the shutdown callback, and every
\* plugins() call and the initialize() call come before shutdown().
C13_InitializeAndShutdownOnce ==
    /\ Count(calls, "initialize") <= 1
    /\ Count(calls, "shutdown") <= 1
    /\ IsSome(last_cb) =>
          (Count(Unwrap(last_cb).invoked, "shutdown") > 0 => Unwrap(last_cb).cb = "shutdown")
    /\ \A i \in 1..Len(calls), j \in 1..Len(calls) :
          (calls[i] = "shutdown" /\ (IsConstruction(calls[j]) \/ calls[j] = "initialize"))
              => j < i

\* C13 witness: a construction, initialize() and then shutdown() have all happened.
C13_Witness ==
    /\ Len(calls) >= 3
    /\ calls[Len(calls)] = "shutdown"
    /\ Count(calls, "initialize") = 1
    /\ \E j \in 1..Len(calls) : IsConstruction(calls[j])

\* C14: CONFIG_SEEN starts false, and once true it stays true through every config,
\* init and shutdown callback.
C14_ConfigSeenMonotone ==
    /\ CONFIG_SEEN = FALSE
    /\ [][CONFIG_SEEN => CONFIG_SEEN']_vars

\* C14 witness: the flag is set and the module has gone through two config callbacks,
\* init and shutdown.
C14_Witness ==
    /\ CONFIG_SEEN
    /\ configs.fired >= 2
    /\ IsSome(init_obs)
    /\ phase = "shutdown"

\* C15: when plugins() returns Multiple with two entries of the same name, the
\* callback does not report success having registered both under that name.
C15_DuplicateNamesRejected ==
    (IsSome(last_cb) /\ Unwrap(last_cb).returned /\ Unwrap(last_cb).status = 0) =>
        \A i \in 1..Len(last_registered), j \in 1..Len(last_registered) :
            (i # j) => last_registered[i] # last_registered[j]

\* C19: a config callback in which plugins(Some(items)) failed leaves CONFIG_SEEN true;
\* when no config callback succeeded but one reached plugins(), the init callback
\* does not call plugins(None) and no plugin instance exists.
C19_FailedConfigStillSetsFlag ==
    /\ (/\ IsSome(last_cb)
        /\ Unwrap(last_cb).cb = "config"
        /\ Count(Unwrap(last_cb).invoked, "plugins_some") = 1
        /\ Unwrap(last_cb).status # 0) => CONFIG_SEEN
    /\ (/\ IsSome(init_obs)
        /\ Unwrap(init_obs).ok_before = 0
        /\ Count(calls, "plugins_some") >= 1) =>
          /\ Unwrap(init_obs).seen_before
          /\ Count(Unwrap(init_obs).invoked, "plugins_none") = 0
          /\ instances = <<>>

\* C19 witness: init has run after a config callback whose plugins() failed, and there
\* is no instance.
C19_Witness ==
    /\ IsSome(init_obs)
    /\ Unwrap(init_obs).ok_before = 0
    /\ Unwrap(init_obs).fired_before >= 1
    /\ Count(calls, "plugins_some") >= 1
    /\ Count(calls, "plugins_none") = 0
    /\ instances = <<>>


\* The bytes are a C string the host reads whole: one NUL, at the end.
OneNulAtEnd(bytes) ==
    /\ Len(bytes) >= 1
    /\ bytes[Len(bytes)] = Nul
    /\ \A i \in 1..(Len(bytes) - 1) : bytes[i] # Nul

\* C18: every byte sequence handed to the host sink, by log() for any formatter
\* output and by collectd_log for any accepted message, ends with a NUL and
\* contains no other NUL.
C18_SinkBytesHaveOneNul ==
    /\ \A t \in Threads :
          (IsSome(obs[t]) /\ IsSome(Unwrap(obs[t]).call)) =>
              OneNulAtEnd(Unwrap(Unwrap(obs[t]).call).bytes)
    /\ (fn = "collectd_log") =>
          \A i \in 1..Len(res.sink) : OneNulAtEnd(res.sink[i].bytes)

\* The message a returned log() call handed to the host is its own prefix and output.
OwnMessage(o) ==
    IsSome(o.call) =>
        /\ Unwrap(o.call).bytes = ExpectedPrefix(Unwrap(logger)) \o o.out \o <<Nul>>
        /\ Unwrap(o.call).lvl = LevelCode(From_Level(o.rec.level))

\* C17: however the log() calls of two threads interleave, no LOG_BUF slot is taken
\* from or set by more than one thread, and each message handed to the host is made
\* of the calling thread's own record: its prefix, its formatter output, one NUL.
C17_ThreadsNeverShareBuffer ==
    /\ \A slot \in Threads : Cardinality(touched[slot]) <= 1
    /\ \A t \in Threads : IsSome(obs[t]) => OwnMessage(Unwrap(obs[t]))
    /\ \A t \in Threads : \A i \in 1..Len(stack[t]) :
          stack[t][i].v = ExpectedPrefix(Unwrap(logger)) \o stack[t][i].out

\* C17 witness: t1's call returned and reached the host with its own output while t2
\* was inside its own call with other bytes written.
C17_Witness ==
    /\ IsSome(obs["t1"])
    /\ IsSome(Unwrap(obs["t1"]).call)
    /\ Unwrap(obs["t1"]).out # <<>>
    /\ stack["t2"] # <<>>
    /\ stack["t2"][1].out # <<>>
    /\ stack["t2"][1].out # Unwrap(obs["t1"]).out
    /\ touched["t1"] = {"t1"}
    /\ touched["t2"] = {"t2"}

\* C20: when a format function calls log() on its own thread, the nested call finds
\* an empty buffer in the slot, the nested and the outer call each hand the host
\* their own prefix and formatter output, and the slot holds an empty buffer once
\* the outer call has returned.
C20_NestedLogKeepsMessagesApart ==
    \A t \in Threads :
        /\ \A i \in 2..Len(stack[t]) : stack[t][i].buf_before = <<>>
        /\ IsSome(inner_obs[t]) =>
              /\ OwnMessage(Unwrap(inner_obs[t]))
              /\ Unwrap(inner_obs[t]).buf_before = <<>>
        /\ IsSome(obs[t]) =>
              /\ OwnMessage(Unwrap(obs[t]))
              /\ Unwrap(obs[t]).buf_after = <<>>
              /\ LOG_BUF[buf_slot(t)] = <<>>

\* C20 witness: an outer call whose format function logged a record has returned;
\* both reached the host, with different output.
C20_Witness ==
    /\ IsSome(obs["t1"])
    /\ IsSome(inner_obs["t1"])
    /\ IsSome(Unwrap(obs["t1"]).call)
    /\ IsSome(Unwrap(inner_obs["t1"]).call)
    /\ Unwrap(obs["t1"]).out # Unwrap(inner_obs["t1"]).out
    /\ Unwrap(inner_obs["t1"]).out # <<>>
    /\ LOG_BUF["t1"] = <<>>


====
